---- MODULE Spec2Model ----
(***************************************************************************)
(* A model of the code-reviewer pipeline (mgreau/code-reviewer):           *)
(*   pkg/reviewer/reviewer.go  Review, PostReview, buildReviewComment,     *)
(*                             extractCodeFromSuggestion, newDiffLines,    *)
(*                             parseHunkStart, contains                    *)
(*   pkg/reviewer/judge.go     JudgeSuggestions, ExtractSuggestions        *)
(*   cmd/reviewer/main.go      main                                        *)
(* Strings of the program are sequences of one-character strings, so that  *)
(* prefix tests, splitting and digit parsing are computed as the code      *)
(* computes them.  The Go string "" is the empty sequence << >>.           *)
(***************************************************************************)
EXTENDS Integers, Sequences, FiniteSets, TLC

(***************************************************************************)
(* Bounds of the model.                                                    *)
(***************************************************************************)
\* the longest finding list the AI collaborator returns
MaxFindings == 3
\* the number of hunk body lines of a generated unified diff
MaxBodyLines == 3

(***************************************************************************)
(* Go's strings package, on sequences of characters.                       *)
(***************************************************************************)
HasPrefix(s, p) == Len(s) >= Len(p) /\ SubSeq(s, 1, Len(p)) = p

TrimPrefix(s, p) == IF HasPrefix(s, p) THEN SubSeq(s, Len(p) + 1, Len(s)) ELSE s

\* strings.Index(s, c) for a one-character c, 1-based; 0 when c is absent
Index(s, c) ==
    LET at == { i \in 1..Len(s) : s[i] = c }
    IN  IF at = {} THEN 0 ELSE CHOOSE i \in at : \A j \in at : i <= j

\* strings.Split(s, "\n"): one element more than there are newlines, the k-th
\* being the text between the (k-1)-th and the k-th newline; the last one is the
\* text after the last newline (empty when the text ends with a newline)
Split(s) ==
    LET nls == { i \in 1..Len(s) : s[i] = "\n" }
        cut(k) == IF k = 0 THEN 0
                  ELSE IF k > Cardinality(nls) THEN Len(s) + 1
                  ELSE CHOOSE i \in nls : Cardinality({ j \in nls : j < i }) = k - 1
    IN  [k \in 1..(Cardinality(nls) + 1) |-> SubSeq(s, cut(k - 1) + 1, cut(k) - 1)]

\* strings.Join(lines, "\n")
RECURSIVE Join(_)
Join(lines) ==
    IF lines = <<>> THEN <<>>
    ELSE IF Len(lines) = 1 THEN lines[1]
    ELSE lines[1] \o <<"\n">> \o Join(Tail(lines))

DigitChars == <<"0", "1", "2", "3", "4", "5", "6", "7", "8", "9">>

IsDigit(c) == \E d \in 1..10 : DigitChars[d] = c

DigitVal(c) == (CHOOSE d \in 1..10 : DigitChars[d] = c) - 1

\* fmt's %d of a natural number
RECURSIVE Dec(_)
Dec(n) == IF n < 10 THEN <<DigitChars[n + 1]>>
          ELSE Append(Dec(n \div 10), DigitChars[(n % 10) + 1])

(***************************************************************************)
(* reviewer.go: parseHunkStart.  The loop over rest keeps adding digits,   *)
(* skips a non-digit at index 0 and stops at a non-digit at index > 0.     *)
(***************************************************************************)
RECURSIVE HunkDigits(_, _, _)
HunkDigits(rest, i, start) ==
    IF i > Len(rest) THEN start
    ELSE IF IsDigit(rest[i]) THEN HunkDigits(rest, i + 1, start * 10 + DigitVal(rest[i]))
    ELSE IF i > 1 THEN start
    ELSE HunkDigits(rest, i + 1, start)

parseHunkStart(header) ==
    LET plusIdx == Index(header, "+")
    IN  IF plusIdx = 0 THEN 0
        ELSE HunkDigits(SubSeq(header, plusIdx + 1, Len(header)), 1, 0)

(***************************************************************************)
(* reviewer.go: newDiffLines.  A parser state is the map dl.files and the  *)
(* four locals of the function.                                            *)
(***************************************************************************)
PfxNewFile == <<"+", "+", "+", " ", "b", "/">>
PfxHunk == <<"@", "@">>

ParserInit ==
    [files |-> << >>, currentFile |-> << >>, currentLine |-> 0,
     rangeStart |-> 0, inRange |-> FALSE]

\* dl.files[f] = append(dl.files[f], r)
AppendRange(files, f, r) ==
    IF f \in DOMAIN files
    THEN [files EXCEPT ![f] = Append(@, r)]
    ELSE [g \in DOMAIN files \cup {f} |-> IF g = f THEN <<r>> ELSE files[g]]

flushRange_EndAtCursor(st) ==
    IF st.inRange /\ st.currentFile # << >> /\ st.rangeStart > 0
    THEN [st EXCEPT !.files = AppendRange(st.files, st.currentFile,
                                 [start |-> st.rangeStart, end |-> st.currentLine]),
                    !.inRange = FALSE]
    ELSE st

\* the closure flushRange
flushRange(st) ==
    IF st.inRange /\ st.currentFile # << >> /\ st.rangeStart > 0
    THEN [st EXCEPT !.files = AppendRange(st.files, st.currentFile,
                                 [start |-> st.rangeStart, end |-> st.currentLine - 1]),
                    !.inRange = FALSE]
    ELSE st

TrackLine_NoAdvance(st) ==
    [st EXCEPT !.rangeStart = IF st.inRange THEN @ ELSE st.currentLine,
               !.inRange = TRUE]

\* a line of the new version: open a range if none is pending, advance
TrackLine(st) ==
    [st EXCEPT !.rangeStart = IF st.inRange THEN @ ELSE st.currentLine,
               !.inRange = TRUE,
               !.currentLine = @ + 1]

DiffStep_OtherIgnored(st, line) ==
    IF HasPrefix(line, PfxNewFile)
    THEN [flushRange(st) EXCEPT !.currentFile = TrimPrefix(line, PfxNewFile),
                                !.currentLine = 0]
    ELSE IF HasPrefix(line, PfxHunk)
    THEN LET start == parseHunkStart(line)
         IN  IF start > 0 THEN [flushRange(st) EXCEPT !.currentLine = start]
             ELSE flushRange(st)
    ELSE IF st.currentFile # << >> /\ st.currentLine > 0
    THEN IF HasPrefix(line, <<"+">>) \/ HasPrefix(line, <<" ">>) THEN TrackLine(st)
         ELSE IF HasPrefix(line, <<"-">>) THEN flushRange(st)
         ELSE st
    ELSE st

\* one iteration of the loop over the lines
DiffStep(st, line) ==
    IF HasPrefix(line, PfxNewFile)
    THEN [flushRange(st) EXCEPT !.currentFile = TrimPrefix(line, PfxNewFile),
                                !.currentLine = 0]
    ELSE IF HasPrefix(line, PfxHunk)
    THEN LET start == parseHunkStart(line)
         IN  IF start > 0 THEN [flushRange(st) EXCEPT !.currentLine = start]
             ELSE flushRange(st)
    ELSE IF st.currentFile # << >> /\ st.currentLine > 0
    THEN IF HasPrefix(line, <<"+">>) \/ HasPrefix(line, <<" ">>) THEN TrackLine(st)
         ELSE IF HasPrefix(line, <<"-">>) THEN flushRange(st)
         ELSE IF HasPrefix(line, <<"\\">>) THEN st
         ELSE TrackLine(st)
    ELSE st

RECURSIVE DiffFold(_, _, _)
DiffFold(st, lines, i) ==
    IF i > Len(lines) THEN st ELSE DiffFold(DiffStep(st, lines[i]), lines, i + 1)

\* the map dl.files of the returned *diffLines
newDiffLines(diff) == flushRange(DiffFold(ParserInit, Split(diff), 1)).files

contains_ExclusiveEnd(files, file, line) ==
    IF file \notin DOMAIN files THEN FALSE
    ELSE \E k \in 1..Len(files[file]) :
            line >= files[file][k].start /\ line < files[file][k].end

\* reviewer.go: diffLines.contains
contains(files, file, line) ==
    IF file \notin DOMAIN files THEN FALSE
    ELSE \E k \in 1..Len(files[file]) :
            line >= files[file][k].start /\ line <= files[file][k].end

(***************************************************************************)
(* reviewer.go: buildReviewComment and the loop of PostReview that places  *)
(* each suggestion inline or in the review body.  A nil StartLine is 0 and *)
(* a nil StartSide is "".                                                  *)
(***************************************************************************)
buildReviewComment_AnyStart(s, files) ==
    LET multi == s.LineStart # s.LineEnd /\ s.LineStart > 0
    IN  [Path |-> s.File, Line |-> s.LineEnd, Side |-> "RIGHT",
         StartLine |-> IF multi THEN s.LineStart ELSE 0,
         StartSide |-> IF multi THEN "RIGHT" ELSE ""]

buildReviewComment(s, files) ==
    LET multi == s.LineStart # s.LineEnd /\ s.LineStart > 0
                 /\ contains(files, s.File, s.LineStart)
    IN  [Path |-> s.File, Line |-> s.LineEnd, Side |-> "RIGHT",
         StartLine |-> IF multi THEN s.LineStart ELSE 0,
         StartSide |-> IF multi THEN "RIGHT" ELSE ""]

IsInline_ByStart(s, files) == contains(files, s.File, s.LineStart)

\* the test of the if statement in the loop of PostReview
IsInline(s, files) == contains(files, s.File, s.LineEnd)

RECURSIVE PlaceFrom(_, _, _, _)
PlaceFrom(sugs, files, i, acc) ==
    IF i > Len(sugs) THEN acc
    ELSE IF IsInline(sugs[i], files)
    THEN PlaceFrom(sugs, files, i + 1,
             [acc EXCEPT !.comments = Append(@, buildReviewComment(sugs[i], files))])
    ELSE PlaceFrom(sugs, files, i + 1,
             [acc EXCEPT !.unresolved = Append(@, sugs[i])])

PlaceSuggestions(sugs, files) ==
    PlaceFrom(sugs, files, 1, [comments |-> << >>, unresolved |-> << >>])

reviewEvent_RequestChanges(res) ==
    IF res.Approved THEN "APPROVE"
    ELSE IF \E i \in 1..Len(res.Suggestions) : res.Suggestions[i].Severity = "error"
    THEN "REQUEST_CHANGES"
    ELSE "COMMENT"

\* PostReview: determine review event
reviewEvent(res) == IF res.Approved THEN "APPROVE" ELSE "COMMENT"

(***************************************************************************)
(* reviewer.go: extractCodeFromSuggestion.  A scan state holds the locals  *)
(* inCodeBlock, codeLines and currentBlock of the function.                *)
(***************************************************************************)
\* the character U+0060, the grave accent; it is written as a name because
\* the lexer of the TLA+ tools does not read it inside a string
Backtick == "U+0060"

Fence == <<Backtick, Backtick, Backtick>>

\* the white space strings.TrimSpace removes
WhiteSpace == {" ", "\t", "\n", "\r", "\f"}

TrimSpace(s) ==
    LET ink == { i \in 1..Len(s) : s[i] \notin WhiteSpace }
    IN  IF ink = {} THEN << >>
        ELSE SubSeq(s, CHOOSE i \in ink : \A j \in ink : i <= j,
                       CHOOSE i \in ink : \A j \in ink : i >= j)

\* strings.Contains
Contains(s, sub) ==
    \E i \in 1..(Len(s) - Len(sub) + 1) : SubSeq(s, i, i + Len(sub) - 1) = sub

ScanInit == [inCodeBlock |-> FALSE, codeLines |-> << >>, currentBlock |-> << >>]

ExtractStep_KeepFirst(st, line) ==
    IF HasPrefix(TrimSpace(line), Fence)
    THEN IF st.inCodeBlock
         THEN [st EXCEPT !.codeLines = IF Len(st.currentBlock) > 0 /\ Len(@) = 0
                                       THEN st.currentBlock ELSE @,
                         !.currentBlock = << >>,
                         !.inCodeBlock = FALSE]
         ELSE [st EXCEPT !.inCodeBlock = TRUE, !.currentBlock = << >>]
    ELSE IF st.inCodeBlock THEN [st EXCEPT !.currentBlock = Append(@, line)]
    ELSE st

ExtractStep_KeepEmpty(st, line) ==
    IF HasPrefix(TrimSpace(line), Fence)
    THEN IF st.inCodeBlock
         THEN [st EXCEPT !.codeLines = st.currentBlock,
                         !.currentBlock = << >>,
                         !.inCodeBlock = FALSE]
         ELSE [st EXCEPT !.inCodeBlock = TRUE, !.currentBlock = << >>]
    ELSE IF st.inCodeBlock THEN [st EXCEPT !.currentBlock = Append(@, line)]
    ELSE st

\* one iteration of the loop over the lines
ExtractStep(st, line) ==
    IF HasPrefix(TrimSpace(line), Fence)
    THEN IF st.inCodeBlock
         THEN [st EXCEPT !.codeLines = IF Len(st.currentBlock) > 0
                                       THEN st.currentBlock ELSE @,
                         !.currentBlock = << >>,
                         !.inCodeBlock = FALSE]
         ELSE [st EXCEPT !.inCodeBlock = TRUE, !.currentBlock = << >>]
    ELSE IF st.inCodeBlock THEN [st EXCEPT !.currentBlock = Append(@, line)]
    ELSE st

RECURSIVE ExtractFold(_, _, _)
ExtractFold(st, lines, i) ==
    IF i > Len(lines) THEN st ELSE ExtractFold(ExtractStep(st, lines[i]), lines, i + 1)

ExtractResult_ClosePending(st, suggestion) ==
    IF st.inCodeBlock /\ Len(st.currentBlock) > 0 THEN Join(st.currentBlock)
    ELSE IF Len(st.codeLines) > 0 THEN Join(st.codeLines)
    ELSE suggestion

ExtractResult_EmptyFallback(st, suggestion) ==
    IF Len(st.codeLines) > 0 THEN Join(st.codeLines) ELSE << >>

\* the return statements after the loop
ExtractResult(st, suggestion) ==
    IF Len(st.codeLines) > 0 THEN Join(st.codeLines) ELSE suggestion

extractCodeFromSuggestion_TrimmedReturn(suggestion) ==
    IF ~Contains(suggestion, Fence) THEN TrimSpace(suggestion)
    ELSE ExtractResult(ExtractFold(ScanInit, Split(suggestion), 1), suggestion)

extractCodeFromSuggestion(suggestion) ==
    IF ~Contains(suggestion, Fence) THEN suggestion
    ELSE ExtractResult(ExtractFold(ScanInit, Split(suggestion), 1), suggestion)

(***************************************************************************)
(* judge.go: the pass-through of the disabled mode, the body of the loop   *)
(* over the suggestions, and ExtractSuggestions.  Scores are in tenths:    *)
(* the Go value 1.0 is 10.  An accumulator holds the locals result and     *)
(* filtered, the error returned from inside the loop (json.MarshalIndent   *)
(* of a CodeSuggestion, a struct of strings and ints, never fails, so the  *)
(* code never sets it) and, as history, the input index of each kept item. *)
(***************************************************************************)
ScoreOne == 10

PassThrough_ZeroScore(sugs) ==
    [i \in 1..Len(sugs) |->
        [Suggestion |-> sugs[i], Score |-> 0, Reasoning |-> "", Improvement |-> << >>]]

PassThrough(sugs) ==
    [i \in 1..Len(sugs) |->
        [Suggestion |-> sugs[i], Score |-> ScoreOne, Reasoning |-> "",
         Improvement |-> << >>]]

JudgeFailOpen(s) ==
    [Suggestion |-> s, Score |-> ScoreOne, Reasoning |-> "Judge evaluation failed",
     Improvement |-> << >>]

JudgeStep_FailClosed(acc, i, s, o, min) ==
    IF o.Err \/ o.Score < min THEN [acc EXCEPT !.filtered = @ + 1]
    ELSE [acc EXCEPT !.result = Append(@, [Suggestion |-> s, Score |-> o.Score,
                                            Reasoning |-> o.Reasoning,
                                            Improvement |-> o.Suggestions]),
                     !.from = Append(@, i)]

JudgeStep_Abort(acc, i, s, o, min) ==
    IF o.Err THEN [acc EXCEPT !.err = "judge"]
    ELSE IF o.Score < min THEN [acc EXCEPT !.filtered = @ + 1]
    ELSE [acc EXCEPT !.result = Append(@, [Suggestion |-> s, Score |-> o.Score,
                                            Reasoning |-> o.Reasoning,
                                            Improvement |-> o.Suggestions]),
                     !.from = Append(@, i)]

JudgeStep_Strict(acc, i, s, o, min) ==
    IF o.Err
    THEN [acc EXCEPT !.result = Append(@, JudgeFailOpen(s)), !.from = Append(@, i)]
    ELSE IF o.Score <= min THEN [acc EXCEPT !.filtered = @ + 1]
    ELSE [acc EXCEPT !.result = Append(@, [Suggestion |-> s, Score |-> o.Score,
                                            Reasoning |-> o.Reasoning,
                                            Improvement |-> o.Suggestions]),
                     !.from = Append(@, i)]

JudgeStep_DropOnError(acc, i, s, o, min) ==
    IF o.Err THEN acc
    ELSE IF o.Score < min THEN [acc EXCEPT !.filtered = @ + 1]
    ELSE [acc EXCEPT !.result = Append(@, [Suggestion |-> s, Score |-> o.Score,
                                            Reasoning |-> o.Reasoning,
                                            Improvement |-> o.Suggestions]),
                     !.from = Append(@, i)]

\* one iteration of the loop of JudgeSuggestions, o being what j.Judge returned
JudgeStep(acc, i, s, o, min) ==
    IF o.Err
    THEN [acc EXCEPT !.result = Append(@, JudgeFailOpen(s)), !.from = Append(@, i)]
    ELSE IF o.Score < min THEN [acc EXCEPT !.filtered = @ + 1]
    ELSE [acc EXCEPT !.result = Append(@, [Suggestion |-> s, Score |-> o.Score,
                                            Reasoning |-> o.Reasoning,
                                            Improvement |-> o.Suggestions]),
                     !.from = Append(@, i)]

\* the loop of JudgeSuggestions over the first Len(outs) suggestions
RECURSIVE JudgeLoop(_, _, _, _, _)
JudgeLoop(acc, sugs, outs, i, min) ==
    IF i > Len(outs) \/ acc.err # "" THEN acc
    ELSE JudgeLoop(JudgeStep(acc, i, sugs[i], outs[i], min), sugs, outs, i + 1, min)

ExtractSuggestions(js) == [i \in 1..Len(js) |-> js[i].Suggestion]

(***************************************************************************)
(* The inputs the collaborators may deliver.                               *)
(***************************************************************************)
PathA == <<"a", ".", "g", "o">>
PathB == <<"b", ".", "g", "o">>

\* the unified diff of section 8 of the specification, five lines
ExampleDiff ==
    Join(<< PfxNewFile \o PathA,
            <<"@", "@", " ", "-", "1", ",", "2", " ", "+", "1", ",", "3", " ", "@", "@">>,
            <<" ", "c", "o", "n", "t", "e", "x", "t">>,
            <<"+", "a", "d", "d", "e", "d">>,
            <<" ", "c", "o", "n", "t", "e", "x", "t", "2">> >>)

EmptyDiff == << >>

\* two files, a deletion between two kept lines, a newline at the end
TwoFileDiff ==
    Join(<< PfxNewFile \o PathB,
            <<"@", "@", " ", "-", "2", ",", "2", " ", "+", "2", " ", "@", "@">>,
            <<"-", "o">>,
            <<"+", "n">>,
            PfxNewFile \o PathA,
            <<"@", "@", " ", "-", "0", ",", "0", " ", "+", "1", ",", "2", " ", "@", "@">>,
            <<"+", "x">>,
            <<"+", "y">>,
            << >> >>)

DiffTexts == {ExampleDiff, EmptyDiff, TwoFileDiff}

Findings ==
    { [File |-> PathA, LineStart |-> 1, LineEnd |-> 2, Severity |-> "error"],
      [File |-> PathB, LineStart |-> 2, LineEnd |-> 2, Severity |-> "info"],
      [File |-> PathA, LineStart |-> 2, LineEnd |-> 7, Severity |-> "warning"] }

FindingSeqs == UNION { [1..n -> Findings] : n \in 0..MaxFindings }

\* what one j.Judge call returns: an error, or a judgement
JudgeOutcomes ==
    { [Err |-> TRUE, Score |-> 0, Reasoning |-> "", Suggestions |-> << >>],
      [Err |-> FALSE, Score |-> 4, Reasoning |-> "weak", Suggestions |-> <<"rephrase">>],
      [Err |-> FALSE, Score |-> 5, Reasoning |-> "fair", Suggestions |-> << >>] }

\* the values of -judge-min-score of the runs: with the scores 0.4 and 0.5 a
\* judgement is below, at or above the threshold
MinScores == {4, 5}

\* the head commit GetPR reports and the summary the AI collaborator writes
HeadSHA == "c0ffee"
AISummary == "summary of the review"

\* the values -provider is given, and the two main accepts
ProviderFlags == {"claude", "openai"}
ValidProviders == {"claude", "gemini"}

\* a command line with its environment: required tells whether -owner, -repo
\* and -pr are all given, project and token whether GOOGLE_CLOUD_PROJECT and
\* GITHUB_TOKEN are set
CommandLines ==
    { [required |-> r, provider |-> p, project |-> e, token |-> t] :
         r \in BOOLEAN, p \in ProviderFlags, e \in BOOLEAN, t \in BOOLEAN }

NoReviewer == [provider |-> "", github |-> FALSE]
NoResult == [Suggestions |-> << >>, Approved |-> FALSE, Summary |-> ""]
NoDraft == [comments |-> << >>, unresolved |-> << >>, event |-> "",
            commitID |-> "", summary |-> ""]
\* no ReviewRequest has been built
NoRequest == [Diff |-> << >>]

NoJudging == [result |-> << >>, filtered |-> 0, from |-> << >>, err |-> ""]

(***************************************************************************)
(* State.  pc is the position of main; useJudge, dryRun and minScore are   *)
(* its flags; reviewer holds the fields provider and github (set or nil)   *)
(* of the Reviewer; ctx is the context handed to every call: "background"  *)
(* can never be cancelled, "live" can, "cancelled" has been; calls is the  *)
(* history of the calls made to the collaborators; commitSHA, diff and     *)
(* result are the fields of the ReviewOutput; raw is the finding list as   *)
(* the AI collaborator returned it; judging holds the locals of            *)
(* JudgeSuggestions, judged its return value and outcomes the history of   *)
(* what the judge answered; diffInfo and draft are the locals of           *)
(* PostReview, draft being the review request it builds; posted holds the  *)
(* reviews created on the hosting platform; err is the message main died   *)
(* with.  sd is the structure of the diff a diff generator has written so  *)
(* far.  arg and ret are the argument and the result of a function that is *)
(* applied on its own.  request is the ReviewRequest Review builds for the *)
(* AI executor.                                                            *)
(***************************************************************************)
VARIABLES pc, useJudge, dryRun, minScore, reviewer, ctx, calls, commitSHA, diff,
          result, raw, request, judging, judged, outcomes, diffInfo, draft,
          posted, err, sd, arg, ret

vars == <<pc, useJudge, dryRun, minScore, reviewer, ctx, calls, commitSHA, diff,
          result, raw, request, judging, judged, outcomes, diffInfo, draft,
          posted, err, sd, arg, ret>>

NoDiffStructure == [secs |-> << >>, nl |-> FALSE]

\* nothing has been fetched, judged or placed
Idle ==
    /\ calls = << >>
    /\ commitSHA = ""
    /\ diff = << >>
    /\ result = NoResult
    /\ raw = << >>
    /\ request = NoRequest
    /\ judging = NoJudging
    /\ judged = << >>
    /\ outcomes = << >>
    /\ diffInfo = << >>
    /\ draft = NoDraft
    /\ posted = << >>
    /\ err = ""
    /\ arg = << >>
    /\ ret = << >>

\* main before it parses its flags, with its context.Background(); or a
\* program that has constructed a Reviewer with NewWithClaude or NewWithGemini
\* and calls Review without having called SetGitHub
Init ==
    /\ pc \in {"flags", "GetPR"}
    /\ useJudge \in BOOLEAN
    /\ dryRun \in BOOLEAN
    /\ minScore \in MinScores
    /\ reviewer \in IF pc = "flags" THEN {NoReviewer}
                    ELSE { [provider |-> p, github |-> FALSE] : p \in ValidProviders }
    /\ ctx = "background"
    /\ sd = NoDiffStructure
    /\ Idle

\* log.Fatalf in main: the process exits with the message
Fatal(msg) == pc' = "exit" /\ err' = msg

\* what a call given the context c may do: succeed, fail, or be cancelled
\* while it is in flight; on a cancelled context it fails
CallOutcomes(c) ==
    IF c = "cancelled" THEN {"fail"}
    ELSE IF c = "live" THEN {"ok", "fail", "cancel"}
    ELSE {"ok", "fail"}

AfterCall(c, o) == IF o = "cancel" THEN "cancelled" ELSE c

(***************************************************************************)
(* main.go: the validation of the flags and of the environment, and the    *)
(* construction of the Reviewer with its GitHub client.                    *)
(***************************************************************************)
Main_ParseFlags_NoProviderCheck ==
    /\ pc = "flags"
    /\ \E f \in CommandLines :
          IF ~f.required
          THEN reviewer' = reviewer /\ Fatal("Usage")
          ELSE IF ~f.project
          THEN reviewer' = reviewer /\ Fatal("GOOGLE_CLOUD_PROJECT is required")
          ELSE IF ~f.token
          THEN reviewer' = reviewer /\ Fatal("GITHUB_TOKEN is required")
          ELSE \E ok \in BOOLEAN :
                  IF ok
                  THEN /\ reviewer' = [provider |-> f.provider, github |-> TRUE]
                       /\ pc' = "GetPR"
                       /\ err' = err
                  ELSE reviewer' = reviewer /\ Fatal("Failed to create reviewer")
    /\ UNCHANGED <<useJudge, dryRun, minScore, ctx, calls, commitSHA, diff, result,
                   raw, request, judging, judged, outcomes, diffInfo, draft, posted, sd,
                   arg, ret>>

Main_ParseFlags ==
    /\ pc = "flags"
    /\ \E f \in CommandLines :
          IF ~f.required
          THEN reviewer' = reviewer /\ Fatal("Usage")
          ELSE IF f.provider \notin ValidProviders
          THEN reviewer' = reviewer /\ Fatal("Invalid provider")
          ELSE IF ~f.project
          THEN reviewer' = reviewer /\ Fatal("GOOGLE_CLOUD_PROJECT is required")
          ELSE IF ~f.token
          THEN reviewer' = reviewer /\ Fatal("GITHUB_TOKEN is required")
          ELSE \E ok \in BOOLEAN :
                  IF ok
                  THEN /\ reviewer' = [provider |-> f.provider, github |-> TRUE]
                       /\ pc' = "GetPR"
                       /\ err' = err
                  ELSE reviewer' = reviewer /\ Fatal("Failed to create reviewer")
    /\ UNCHANGED <<useJudge, dryRun, minScore, ctx, calls, commitSHA, diff, result,
                   raw, request, judging, judged, outcomes, diffInfo, draft, posted, sd,
                   arg, ret>>

(***************************************************************************)
(* reviewer.go: Review, one action per call to a collaborator.             *)
(***************************************************************************)
Review_GetPR ==
    /\ pc = "GetPR"
    /\ IF ~reviewer.github
       THEN /\ Fatal("GitHub client not set")
            /\ UNCHANGED <<ctx, calls, commitSHA>>
       ELSE /\ calls' = Append(calls, "GetPR")
            /\ \E o \in CallOutcomes(ctx) :
                  /\ ctx' = AfterCall(ctx, o)
                  /\ IF o = "ok"
                     THEN commitSHA' = HeadSHA /\ pc' = "GetPRDiff" /\ err' = err
                     ELSE commitSHA' = commitSHA /\ Fatal("fetch PR metadata")
    /\ UNCHANGED <<useJudge, dryRun, minScore, reviewer, diff, result, raw, request, judging,
                   judged, outcomes, diffInfo, draft, posted, sd, arg, ret>>

Review_GetPRDiff ==
    /\ pc = "GetPRDiff"
    /\ calls' = Append(calls, "GetPRDiff")
    /\ \E o \in CallOutcomes(ctx) :
          /\ ctx' = AfterCall(ctx, o)
          /\ IF o = "ok"
             THEN \E d \in DiffTexts : diff' = d /\ pc' = "GetPRFiles" /\ err' = err
             ELSE diff' = diff /\ Fatal("fetch PR diff")
    /\ UNCHANGED <<useJudge, dryRun, minScore, reviewer, commitSHA, result, raw, request,
                   judging, judged, outcomes, diffInfo, draft, posted, sd, arg, ret>>

Review_GetPRFiles ==
    /\ pc = "GetPRFiles"
    /\ calls' = Append(calls, "GetPRFiles")
    /\ \E o \in CallOutcomes(ctx) :
          /\ ctx' = AfterCall(ctx, o)
          /\ IF o = "ok" THEN pc' = "Execute" /\ err' = err
             ELSE Fatal("fetch PR files")
    /\ UNCHANGED <<useJudge, dryRun, minScore, reviewer, commitSHA, diff, result,
                   raw, request, judging, judged, outcomes, diffInfo, draft, posted, sd,
                   arg, ret>>

Review_Execute_Continue ==
    /\ pc = "Execute"
    /\ request' = [Diff |-> diff]
    /\ IF reviewer.provider \notin ValidProviders
       THEN /\ Fatal("unknown provider")
            /\ UNCHANGED <<ctx, calls, result, raw>>
       ELSE /\ calls' = Append(calls, "Execute")
            /\ \E o \in CallOutcomes(ctx) :
                  /\ ctx' = AfterCall(ctx, o)
                  /\ IF o = "ok"
                     THEN \E sugs \in FindingSeqs, approved \in BOOLEAN :
                             /\ result' = [Suggestions |-> sugs, Approved |-> approved,
                                           Summary |-> AISummary]
                             /\ raw' = sugs
                             /\ pc' = "JudgeSuggestions"
                             /\ err' = err
                     ELSE /\ result' = result
                          /\ raw' = raw
                          /\ pc' = "JudgeSuggestions"
                          /\ err' = "generate review"
    /\ UNCHANGED <<useJudge, dryRun, minScore, reviewer, commitSHA, diff, judging,
                   judged, outcomes, diffInfo, draft, posted, sd, arg, ret>>

\* the switch on r.provider, reviewWithClaude / reviewWithGemini, and the
\* return of Review to main
Review_Execute ==
    /\ pc = "Execute"
    /\ request' = [Diff |-> diff]
    /\ IF reviewer.provider \notin ValidProviders
       THEN /\ Fatal("unknown provider")
            /\ UNCHANGED <<ctx, calls, result, raw>>
       ELSE /\ calls' = Append(calls, "Execute")
            /\ \E o \in CallOutcomes(ctx) :
                  /\ ctx' = AfterCall(ctx, o)
                  /\ IF o = "ok"
                     THEN \E sugs \in FindingSeqs, approved \in BOOLEAN :
                             /\ result' = [Suggestions |-> sugs, Approved |-> approved,
                                           Summary |-> AISummary]
                             /\ raw' = sugs
                             /\ pc' = "JudgeSuggestions"
                             /\ err' = err
                     ELSE /\ result' = result
                          /\ raw' = raw
                          /\ Fatal("generate review")
    /\ UNCHANGED <<useJudge, dryRun, minScore, reviewer, commitSHA, diff, judging,
                   judged, outcomes, diffInfo, draft, posted, sd, arg, ret>>

(***************************************************************************)
(* judge.go: JudgeSuggestions.  Begin is the function up to the loop: the  *)
(* pass-through of the disabled mode, or judge.NewVertex.  Judge is one    *)
(* iteration of the loop, around one j.Judge call.  Return is the return   *)
(* of the result to main.                                                  *)
(***************************************************************************)
JudgeSuggestions_Begin ==
    /\ pc = "JudgeSuggestions"
    /\ IF ~useJudge \/ Len(result.Suggestions) = 0
       THEN /\ judged' = PassThrough(result.Suggestions)
            /\ pc' = "ApplyJudge"
            /\ UNCHANGED <<calls, judging, err>>
       ELSE /\ calls' = Append(calls, "NewVertex")
            /\ judging' = NoJudging
            /\ judged' = judged
            /\ \E ok \in BOOLEAN :
                  IF ok THEN pc' = "Judge" /\ err' = err
                  ELSE Fatal("Judge evaluation failed: create judge")
    /\ UNCHANGED <<useJudge, dryRun, minScore, reviewer, ctx, commitSHA, diff,
                   result, raw, request, outcomes, diffInfo, draft, posted, sd, arg, ret>>

\* a j.Judge call that fails or is cancelled returns an error
JudgeSuggestions_Judge ==
    /\ pc = "Judge"
    /\ Len(outcomes) < Len(result.Suggestions)
    /\ calls' = Append(calls, "Judge")
    /\ \E c \in CallOutcomes(ctx) :
          \E o \in { x \in JudgeOutcomes : x.Err = (c # "ok") } :
             LET i == Len(outcomes) + 1
                 next == JudgeStep(judging, i, result.Suggestions[i], o, minScore)
             IN  /\ ctx' = AfterCall(ctx, c)
                 /\ outcomes' = Append(outcomes, o)
                 /\ judging' = next
                 /\ IF next.err # ""
                    THEN Fatal("Judge evaluation failed: " \o next.err)
                    ELSE pc' = pc /\ err' = err
    /\ UNCHANGED <<useJudge, dryRun, minScore, reviewer, commitSHA, diff, result,
                   raw, request, judged, diffInfo, draft, posted, sd, arg, ret>>

JudgeSuggestions_Return_Early ==
    /\ pc = "Judge"
    /\ Len(outcomes) <= Len(result.Suggestions)
    /\ judged' = judging.result
    /\ pc' = "ApplyJudge"
    /\ UNCHANGED <<useJudge, dryRun, minScore, reviewer, ctx, calls, commitSHA,
                   diff, result, raw, request, judging, outcomes, diffInfo, draft, posted,
                   err, sd, arg, ret>>

JudgeSuggestions_Return ==
    /\ pc = "Judge"
    /\ Len(outcomes) = Len(result.Suggestions)
    /\ judged' = judging.result
    /\ pc' = "ApplyJudge"
    /\ UNCHANGED <<useJudge, dryRun, minScore, reviewer, ctx, calls, commitSHA,
                   diff, result, raw, request, judging, outcomes, diffInfo, draft, posted,
                   err, sd, arg, ret>>

(***************************************************************************)
(* main.go: the update of result.Suggestions and the dry-run test.         *)
(***************************************************************************)
Main_ApplyJudge_AlwaysPost ==
    /\ pc = "ApplyJudge"
    /\ result' = IF useJudge
                 THEN [result EXCEPT !.Suggestions = ExtractSuggestions(judged)]
                 ELSE result
    /\ pc' = "PostReview"
    /\ UNCHANGED <<useJudge, dryRun, minScore, reviewer, ctx, calls, commitSHA,
                   diff, raw, request, judging, judged, outcomes, diffInfo, draft, posted,
                   err, sd, arg, ret>>

Main_ApplyJudge_KeepAll ==
    /\ pc = "ApplyJudge"
    /\ result' = result
    /\ pc' = IF dryRun THEN "exit" ELSE "PostReview"
    /\ UNCHANGED <<useJudge, dryRun, minScore, reviewer, ctx, calls, commitSHA,
                   diff, raw, request, judging, judged, outcomes, diffInfo, draft, posted,
                   err, sd, arg, ret>>

Main_ApplyJudge ==
    /\ pc = "ApplyJudge"
    /\ result' = IF useJudge
                 THEN [result EXCEPT !.Suggestions = ExtractSuggestions(judged)]
                 ELSE result
    /\ pc' = IF dryRun THEN "exit" ELSE "PostReview"
    /\ UNCHANGED <<useJudge, dryRun, minScore, reviewer, ctx, calls, commitSHA,
                   diff, raw, request, judging, judged, outcomes, diffInfo, draft, posted,
                   err, sd, arg, ret>>

(***************************************************************************)
(* reviewer.go: PostReview, up to the return to main.  The review request  *)
(* holds the commit id, the event, the inline comments and the two parts   *)
(* of the body: the summary and the suggestions outside the diff.          *)
(***************************************************************************)
PullRequestReviewRequest(sha, res, files) ==
    LET placed == PlaceSuggestions(res.Suggestions, files)
    IN  [comments |-> placed.comments,
         unresolved |-> placed.unresolved,
         event |-> reviewEvent(res),
         commitID |-> sha,
         summary |-> res.Summary]

PostReview_Retry ==
    /\ pc = "PostReview"
    /\ IF ~reviewer.github
       THEN /\ Fatal("Failed to post review")
            /\ UNCHANGED <<ctx, calls, diffInfo, draft, posted>>
       ELSE LET files == newDiffLines(diff)
                review == PullRequestReviewRequest(commitSHA, result, files)
            IN  /\ diffInfo' = files
                /\ draft' = review
                /\ \E o \in CallOutcomes(ctx) :
                      /\ ctx' = AfterCall(ctx, o)
                      /\ IF o = "ok"
                         THEN /\ calls' = Append(calls, "CreateReview")
                              /\ posted' = Append(posted, review)
                              /\ pc' = "exit"
                              /\ err' = err
                         ELSE /\ calls' = calls \o <<"CreateReview", "CreateReview">>
                              /\ \E again \in CallOutcomes(AfterCall(ctx, o)) :
                                    IF again = "ok"
                                    THEN /\ posted' = Append(posted, review)
                                         /\ pc' = "exit"
                                         /\ err' = err
                                    ELSE posted' = posted /\ Fatal("Failed to post review")
    /\ UNCHANGED <<useJudge, dryRun, minScore, reviewer, commitSHA, diff, result,
                   raw, request, judging, judged, outcomes, sd, arg, ret>>

PostReview_Refetch ==
    /\ pc = "PostReview"
    /\ IF ~reviewer.github
       THEN /\ Fatal("Failed to post review")
            /\ UNCHANGED <<ctx, calls, diffInfo, draft, posted>>
       ELSE \E d \in DiffTexts :
               LET files == newDiffLines(d)
                   review == PullRequestReviewRequest(commitSHA, result, files)
               IN  /\ diffInfo' = files
                   /\ draft' = review
                   /\ calls' = calls \o <<"GetPRDiff", "CreateReview">>
                   /\ \E o \in CallOutcomes(ctx) :
                         /\ ctx' = AfterCall(ctx, o)
                         /\ IF o = "ok"
                            THEN posted' = Append(posted, review) /\ pc' = "exit" /\ err' = err
                            ELSE posted' = posted /\ Fatal("Failed to post review")
    /\ UNCHANGED <<useJudge, dryRun, minScore, reviewer, commitSHA, diff, result,
                   raw, request, judging, judged, outcomes, sd, arg, ret>>

PostReview ==
    /\ pc = "PostReview"
    /\ IF ~reviewer.github
       THEN /\ Fatal("Failed to post review")
            /\ UNCHANGED <<ctx, calls, diffInfo, draft, posted>>
       ELSE LET files == newDiffLines(diff)
                review == PullRequestReviewRequest(commitSHA, result, files)
            IN  /\ diffInfo' = files
                /\ draft' = review
                /\ calls' = Append(calls, "CreateReview")
                /\ \E o \in CallOutcomes(ctx) :
                      /\ ctx' = AfterCall(ctx, o)
                      /\ IF o = "ok"
                         THEN posted' = Append(posted, review) /\ pc' = "exit" /\ err' = err
                         ELSE posted' = posted /\ Fatal("Failed to post review")
    /\ UNCHANGED <<useJudge, dryRun, minScore, reviewer, commitSHA, diff, result,
                   raw, request, judging, judged, outcomes, sd, arg, ret>>

Next ==
    \/ Main_ParseFlags
    \/ Review_GetPR
    \/ Review_GetPRDiff
    \/ Review_GetPRFiles
    \/ Review_Execute
    \/ JudgeSuggestions_Begin
    \/ JudgeSuggestions_Judge
    \/ JudgeSuggestions_Return
    \/ Main_ApplyJudge
    \/ PostReview

Spec == Init /\ [][Next]_vars

(***************************************************************************)
(* The package called by a program other than main: it has constructed the *)
(* Reviewer and set its GitHub client, it makes the calls main makes, and  *)
(* the context it hands to them can be cancelled.                          *)
(***************************************************************************)
CallerInit ==
    /\ pc = "GetPR"
    /\ useJudge \in BOOLEAN
    /\ dryRun \in BOOLEAN
    /\ minScore \in MinScores
    /\ reviewer \in { [provider |-> p, github |-> TRUE] : p \in ValidProviders }
    /\ ctx = "live"
    /\ sd = NoDiffStructure
    /\ Idle

CallerNext ==
    \/ Review_GetPR
    \/ Review_GetPRDiff
    \/ Review_GetPRFiles
    \/ Review_Execute
    \/ JudgeSuggestions_Begin
    \/ JudgeSuggestions_Judge
    \/ JudgeSuggestions_Return
    \/ Main_ApplyJudge
    \/ PostReview

CallerSpec == CallerInit /\ [][CallerNext]_vars

(***************************************************************************)
(* Properties of the pipeline.                                             *)
(***************************************************************************)
Range(s) == { s[i] : i \in DOMAIN s }

ReviewCalls == <<"GetPR", "GetPRDiff", "GetPRFiles", "Execute">>
ReviewErrors == <<"fetch PR metadata", "fetch PR diff", "fetch PR files",
                  "generate review">>
JudgeErrors == {"Judge evaluation failed: create judge", "Judge evaluation failed: judge"}

\* the errors of a wrong configuration: of the command line, of the
\* environment, of the Reviewer
ConfigErrors ==
    {"Usage", "Invalid provider", "GOOGLE_CLOUD_PROJECT is required",
     "GITHUB_TOKEN is required", "GitHub client not set", "unknown provider"}

\* the errors main or Review reports before the first fetch
StartupErrors == ConfigErrors \cup {"Failed to create reviewer"}

\* PostReview has run: its CreateReview call is the last call of the run
PostReviewRan == calls # << >> /\ calls[Len(calls)] = "CreateReview"

\* JudgeSuggestions has returned its result to main
JudgeReturned ==
    \/ pc \in {"ApplyJudge", "PostReview"}
    \/ pc = "exit" /\ err \notin StartupErrors \cup Range(ReviewErrors) \cup JudgeErrors

\* the judging mode ran: judge.NewVertex succeeded
EnabledMode == useJudge /\ raw # << >>

\* the items of the judged list that come from input finding i
EntryOf(acc, i) ==
    LET ks == { k \in 1..Len(acc.result) : acc.from[k] = i }
    IN  { acc.result[k] : k \in ks }

KeptCopies(acc, i) == Cardinality({ k \in 1..Len(acc.from) : acc.from[k] = i })

\* C1: once PostReview has placed the findings, the fallback entries are
\* exactly the findings whose (file, lineEnd) the diff index does not contain,
\* the inline comments are anchored at exactly the findings it contains, both in
\* finding order, and the two counts add up to the number of findings.
C1_PlacementPartition ==
    PostReviewRan =>
        LET sugs == result.Suggestions
            in == SelectSeq(sugs, LAMBDA s : contains(diffInfo, s.File, s.LineEnd))
            out == SelectSeq(sugs, LAMBDA s : ~contains(diffInfo, s.File, s.LineEnd))
        IN  /\ Len(draft.comments) + Len(draft.unresolved) = Len(sugs)
            /\ draft.unresolved = out
            /\ Len(draft.comments) = Len(in)
            /\ \A k \in 1..Len(in) :
                  /\ draft.comments[k].Path = in[k].File
                  /\ draft.comments[k].Line = in[k].LineEnd

C1_Witness ==
    /\ PostReviewRan
    /\ draft.comments # << >>
    /\ draft.unresolved # << >>

\* C2: the event of the review request is APPROVE exactly when the AI result
\* is approved and COMMENT exactly when it is not, every review created on the
\* platform carries that event, and it is never a request for changes.
C2_EventIsApproveOrComment ==
    /\ PostReviewRan =>
          /\ result.Approved => draft.event = "APPROVE"
          /\ ~result.Approved => draft.event = "COMMENT"
    /\ \A k \in 1..Len(posted) :
          /\ posted[k].event = draft.event
          /\ posted[k].event \in {"APPROVE", "COMMENT"}
          /\ posted[k].event # "REQUEST_CHANGES"

C2_Witness ==
    /\ posted # << >>
    /\ ~result.Approved
    /\ \E i \in 1..Len(result.Suggestions) : result.Suggestions[i].Severity = "error"
    /\ posted[1].event = "COMMENT"

\* C3: when the k-th call of Review (GetPR, GetPRDiff, GetPRFiles, the AI
\* generation) fails, main has exited, the calls made are exactly the first k
\* calls of Review, so no judge call and no CreateReview, and nothing is posted.
C3_ReviewFailureAborts ==
    \A k \in 1..Len(ReviewErrors) :
        err = ReviewErrors[k] =>
            /\ pc = "exit"
            /\ calls = SubSeq(ReviewCalls, 1, k)
            /\ "CreateReview" \notin Range(calls)
            /\ draft = NoDraft
            /\ posted = << >>

C3_Witness ==
    /\ err = "generate review"
    /\ pc = "exit"
    /\ calls = ReviewCalls

\* C4: for every finding i whose judge call failed: it is kept exactly once,
\* with score 1.0 and the reasoning "Judge evaluation failed"; the loop was not
\* aborted by it; and every other finding has the entry it has in the run whose
\* i-th judge call succeeds instead.
C4_JudgeFailureFailsOpen ==
    \A i \in 1..Len(outcomes) :
        outcomes[i].Err =>
            /\ KeptCopies(judging, i) = 1
            /\ EntryOf(judging, i) =
                  { [Suggestion |-> raw[i], Score |-> ScoreOne,
                     Reasoning |-> "Judge evaluation failed", Improvement |-> << >>] }
            /\ judging.err = ""
            /\ err \notin JudgeErrors
            /\ pc # "Judge" => Len(outcomes) = Len(raw)
            /\ pc \in {"Judge", "ApplyJudge"} =>
               \A o \in { x \in JudgeOutcomes : ~x.Err } :
                  LET hyp == JudgeLoop(NoJudging, raw, [outcomes EXCEPT ![i] = o],
                                       1, minScore)
                  IN  \A j \in (1..Len(outcomes)) \ {i} :
                         /\ EntryOf(judging, j) = EntryOf(hyp, j)
                         /\ KeptCopies(judging, j) = KeptCopies(hyp, j)

C4_Witness ==
    /\ pc = "ApplyJudge"
    /\ Len(outcomes) = 3
    /\ ~outcomes[1].Err /\ outcomes[1].Score < minScore
    /\ outcomes[2].Err
    /\ ~outcomes[3].Err /\ outcomes[3].Score >= minScore
    /\ Len(judged) = 2

\* C5 as claimed: no failure in the Filtering stage aborts the run, the
\* creation of the judge included.
C5_FilteringNeverAborts == err \notin JudgeErrors

\* C5 as amended: the run is aborted in the Filtering stage only by the failure
\* to create the judge, and then before any judge call and with nothing posted;
\* no judge call, failed or not, aborts it, and a finding whose judge call failed
\* is among the findings PostReview places.
C5_OnlyJudgeCreationAborts ==
    /\ err \in JudgeErrors =>
          /\ err = "Judge evaluation failed: create judge"
          /\ pc = "exit"
          /\ calls[Len(calls)] = "NewVertex"
          /\ outcomes = << >>
          /\ draft = NoDraft
          /\ posted = << >>
    /\ outcomes # << >> => err \notin JudgeErrors /\ judging.err = ""
    /\ PostReviewRan =>
          \A i \in 1..Len(outcomes) :
              outcomes[i].Err =>
                  \/ raw[i] \in Range(draft.unresolved)
                  \/ \E k \in 1..Len(draft.comments) :
                        /\ draft.comments[k].Path = raw[i].File
                        /\ draft.comments[k].Line = raw[i].LineEnd

C5_Witness ==
    /\ PostReviewRan
    /\ \E i \in 1..Len(outcomes) : outcomes[i].Err
    /\ \A i \in 1..Len(outcomes) : outcomes[i].Err \/ outcomes[i].Score < minScore

\* C6: a finding whose judge call succeeded is kept exactly when the returned
\* score is at least minScore, and the kept item carries the finding with the
\* returned score, reasoning and improvement notes.
C6_KeptIffScoreAtLeastMin ==
    \A i \in 1..Len(outcomes) :
        ~outcomes[i].Err =>
            /\ (KeptCopies(judging, i) = 1) = (outcomes[i].Score >= minScore)
            /\ (KeptCopies(judging, i) = 0) = (outcomes[i].Score < minScore)
            /\ outcomes[i].Score >= minScore =>
                  EntryOf(judging, i) =
                      { [Suggestion |-> raw[i], Score |-> outcomes[i].Score,
                         Reasoning |-> outcomes[i].Reasoning,
                         Improvement |-> outcomes[i].Suggestions] }

C6_Witness ==
    /\ JudgeReturned
    /\ \E i \in 1..Len(outcomes) :
          /\ ~outcomes[i].Err
          /\ outcomes[i].Score = minScore
          /\ KeptCopies(judging, i) = 1
    /\ \E i \in 1..Len(outcomes) :
          /\ ~outcomes[i].Err
          /\ outcomes[i].Score < minScore

\* C7: when judging is disabled or the AI returned no finding, the list
\* JudgeSuggestions returns has the length of the input, its i-th item is the
\* i-th input finding with score 1.0, an empty reasoning and no improvement
\* note, and neither the judge was created nor a judge call made.
C7_DisabledIsIdentity ==
    (JudgeReturned /\ ~EnabledMode) =>
        /\ Len(judged) = Len(raw)
        /\ \A i \in 1..Len(raw) :
              judged[i] = [Suggestion |-> raw[i], Score |-> ScoreOne,
                           Reasoning |-> "", Improvement |-> << >>]
        /\ ExtractSuggestions(judged) = raw
        /\ "Judge" \notin Range(calls)
        /\ "NewVertex" \notin Range(calls)
        /\ outcomes = << >>

C7_Witness ==
    /\ JudgeReturned
    /\ ~useJudge
    /\ Len(raw) >= 2
    /\ raw[1] # raw[2]
    /\ Len(judged) = Len(raw)

\* C8: in enabled mode the kept and the filtered findings add up to the
\* findings judged so far, and to all findings when JudgeSuggestions returns,
\* the findings whose judge call failed being kept; three findings that all
\* score below the threshold give 0 kept and 3 filtered.
C8_KeptPlusFilteredIsTotal ==
    /\ Len(judging.result) + judging.filtered = Len(outcomes)
    /\ Len(judging.result) >=
          Cardinality({ i \in 1..Len(outcomes) : outcomes[i].Err })
    /\ (JudgeReturned /\ EnabledMode) =>
          /\ judged = judging.result
          /\ Len(judged) + judging.filtered = Len(raw)
          /\ (/\ Len(raw) = 3
              /\ \A i \in 1..3 : ~outcomes[i].Err /\ outcomes[i].Score < minScore)
             => (Len(judged) = 0 /\ judging.filtered = 3)

C8_Witness ==
    /\ JudgeReturned
    /\ EnabledMode
    /\ Len(raw) = 3
    /\ \A i \in 1..3 : ~outcomes[i].Err /\ outcomes[i].Score < minScore
    /\ judging.filtered = 3

\* C10: PostReview on the five-line diff of the specification builds the index
\* {a.go: [[1,3]]}, which contains line 2 of a.go and not line 9; on the empty
\* diff it builds the empty mapping.
C10_ExampleIndex ==
    /\ (PostReviewRan /\ diff = ExampleDiff) =>
          /\ DOMAIN diffInfo = {PathA}
          /\ diffInfo[PathA] = <<[start |-> 1, end |-> 3]>>
          /\ contains(diffInfo, PathA, 2)
          /\ ~contains(diffInfo, PathA, 9)
    /\ (PostReviewRan /\ diff = EmptyDiff) => DOMAIN diffInfo = {}

C10_Witness ==
    /\ PostReviewRan
    /\ diff = ExampleDiff
    /\ Len(Split(diff)) = 5
    /\ PathA \in DOMAIN diffInfo

\* the index newDiffLines builds from each text GetPRDiff may return
IndexOfText == [d \in DiffTexts |-> newDiffLines(d)]

\* the review request PostReview composes from the output of Review
ComposedDraft == PullRequestReviewRequest(commitSHA, result, IndexOfText[diff])

\* main has returned without an error
RunCompleted == pc = "exit" /\ err = ""

CreateReviewCalls == Cardinality({ k \in 1..Len(calls) : calls[k] = "CreateReview" })

\* C11 as claimed: a dry-run that completes has composed the draft (inline
\* comments, fallback entries, event) and has not called CreateReview.
C11_DryRunComposesDraft ==
    (dryRun /\ RunCompleted) =>
        /\ draft = ComposedDraft
        /\ "CreateReview" \notin Range(calls)

\* C11 as amended: a dry-run stops after the Filtering stage: PostReview is
\* never entered, so no diff index is built, no draft is composed, CreateReview
\* is never called and nothing is posted; a completed dry-run has the filtered
\* findings as its result.
C11_DryRunStopsBeforePlacing ==
    dryRun =>
        /\ pc # "PostReview"
        /\ "CreateReview" \notin Range(calls)
        /\ diffInfo = << >>
        /\ draft = NoDraft
        /\ posted = << >>
        /\ RunCompleted =>
              /\ JudgeReturned
              /\ useJudge => result.Suggestions = ExtractSuggestions(judged)
              /\ ~useJudge => result.Suggestions = raw

C11_Witness ==
    /\ dryRun
    /\ RunCompleted
    /\ useJudge
    /\ Len(raw) = 2
    /\ Len(result.Suggestions) = 1
    /\ diff = ExampleDiff

\* C12: once a call has been cancelled, no further call to a collaborator is
\* started (no fetch, no generation, no judge call, no CreateReview) and no
\* review is created.
C12_CancellationAborts ==
    [][ctx = "cancelled" => (calls' = calls /\ posted' = posted)]_vars

C14_SubmittedExactlyOnce ==
    /\ CreateReviewCalls <= 1
    /\ Len(posted) <= 1
    /\ (pc = "exit" /\ err \in {"", "Failed to post review"} /\ ~dryRun) =>
          PostReviewRan
    /\ PostReviewRan =>
          /\ CreateReviewCalls = 1
          /\ pc = "exit"
          /\ draft = ComposedDraft
          /\ draft.commitID = HeadSHA
          /\ draft.summary = AISummary
          /\ draft.event = reviewEvent(result)
          /\ Len(draft.comments) =
                Cardinality({ i \in 1..Len(result.Suggestions) :
                                 contains(diffInfo, result.Suggestions[i].File,
                                          result.Suggestions[i].LineEnd) })
          /\ err \in {"", "Failed to post review"}
          /\ err = "" => posted = <<draft>>
          /\ err # "" => posted = << >>

C14_Witness ==
    /\ PostReviewRan
    /\ err = "Failed to post review"
    /\ pc = "exit"
    /\ Len(draft.comments) = 2
    /\ draft.unresolved # << >>
    /\ posted = << >>

(***************************************************************************)
(* Unified diffs.  A diff is written section by section: a section is a    *)
(* file with its hunks, a hunk a new-file start line and its body lines.   *)
(* Render gives the text git prints for it: the section header lines, a    *)
(* hunk header with both line counts, and a body line as its marker        *)
(* followed by the content of the line.                                    *)
(***************************************************************************)
NoNewlineMarker ==
    <<"\\", " ", "N", "o", " ", "n", "e", "w", "l", "i", "n", "e", " ", "a", "t", " ",
      "e", "n", "d", " ", "o", "f", " ", "f", "i", "l", "e">>

\* the body lines written: an unchanged, an added and a removed line, the
\* marker of a missing final newline, and an added line whose content is
\* "++ b/x"
BodyLines ==
    { [kind |-> "ctx", text |-> <<"c">>],
      [kind |-> "add", text |-> <<"n">>],
      [kind |-> "del", text |-> <<"o">>],
      [kind |-> "nonl", text |-> << >>],
      [kind |-> "add", text |-> <<"+", "+", " ", "b", "/", "x">>] }

\* the new-file start line of the first hunk of a file
FirstStarts == {1, 12}

\* the files of a diff, in the order of their sections
DiffPaths == <<PathA, PathB>>

InNewFile(l) == l.kind \in {"ctx", "add"}
InOldFile(l) == l.kind \in {"ctx", "del"}

NewCount(body) == Cardinality({ k \in 1..Len(body) : InNewFile(body[k]) })
OldCount(body) == Cardinality({ k \in 1..Len(body) : InOldFile(body[k]) })

RenderBodyLine(l) ==
    IF l.kind = "ctx" THEN <<" ">> \o l.text
    ELSE IF l.kind = "add" THEN <<"+">> \o l.text
    ELSE IF l.kind = "del" THEN <<"-">> \o l.text
    ELSE NoNewlineMarker

RenderHunk(h) ==
    << <<"@", "@", " ", "-">> \o Dec(h.start) \o <<",">> \o Dec(OldCount(h.body))
       \o <<" ", "+">> \o Dec(h.start) \o <<",">> \o Dec(NewCount(h.body))
       \o <<" ", "@", "@">> >>
    \o [k \in 1..Len(h.body) |-> RenderBodyLine(h.body[k])]

RECURSIVE RenderHunks(_)
RenderHunks(hs) ==
    IF hs = << >> THEN << >> ELSE RenderHunk(hs[1]) \o RenderHunks(Tail(hs))

RenderSection(s) ==
    << <<"d", "i", "f", "f", " ", "-", "-", "g", "i", "t", " ", "a", "/">> \o s.path
          \o <<" ", "b", "/">> \o s.path,
       <<"-", "-", "-", " ", "a", "/">> \o s.path,
       PfxNewFile \o s.path >>
    \o RenderHunks(s.hunks)

RECURSIVE RenderSections(_)
RenderSections(secs) ==
    IF secs = << >> THEN << >>
    ELSE RenderSection(secs[1]) \o RenderSections(Tail(secs))

Render(d) ==
    IF d.secs = << >> THEN << >>
    ELSE Join(RenderSections(d.secs)) \o (IF d.nl THEN <<"\n">> ELSE << >>)

\* the body lines written so far
RECURSIVE BodyTotal(_)
BodyTotal(secs) ==
    IF secs = << >> THEN 0
    ELSE LET hs == secs[1].hunks
         IN  Cardinality({ <<h, k>> \in (1..Len(hs)) \X (1..MaxBodyLines) :
                              k <= Len(hs[h].body) })
             + BodyTotal(Tail(secs))

LastSection(d) == d.secs[Len(d.secs)]
LastHunk(d) == LastSection(d).hunks[Len(LastSection(d).hunks)]

\* the marker of a missing newline follows a line of the file
MayFollow(body, l) ==
    l.kind = "nonl" => (body # << >> /\ body[Len(body)].kind # "nonl")

\* the diff generator writes sd and the index is built from its text
Written(d) ==
    /\ sd' = d
    /\ diff' = Render(d)
    /\ diffInfo' = newDiffLines(Render(d))
    /\ UNCHANGED <<pc, useJudge, dryRun, minScore, reviewer, ctx, calls, commitSHA,
                   result, raw, request, judging, judged, outcomes, draft, posted, err,
                   arg, ret>>

Gen_NewFile ==
    /\ pc = "diff"
    /\ BodyTotal(sd.secs) < MaxBodyLines
    /\ Len(sd.secs) < Len(DiffPaths)
    /\ \E start \in FirstStarts, l \in BodyLines :
          /\ MayFollow(<< >>, l)
          /\ Written([sd EXCEPT !.secs =
                 Append(@, [path |-> DiffPaths[Len(sd.secs) + 1],
                            hunks |-> << [start |-> start, body |-> <<l>>] >>])])

\* a further hunk of the last file, below the lines of its last hunk
Gen_NewHunk ==
    /\ pc = "diff"
    /\ BodyTotal(sd.secs) < MaxBodyLines
    /\ sd.secs # << >>
    /\ \E l \in BodyLines :
          /\ MayFollow(<< >>, l)
          /\ LET h == LastHunk(sd)
                 start == h.start + NewCount(h.body) + 1
             IN  Written([sd EXCEPT !.secs[Len(sd.secs)].hunks =
                     Append(@, [start |-> start, body |-> <<l>>])])

Gen_Line ==
    /\ pc = "diff"
    /\ BodyTotal(sd.secs) < MaxBodyLines
    /\ sd.secs # << >>
    /\ \E l \in BodyLines :
          /\ MayFollow(LastHunk(sd).body, l)
          /\ Written([sd EXCEPT
                 !.secs[Len(sd.secs)].hunks[Len(LastSection(sd).hunks)].body =
                     Append(@, l)])

DiffInit ==
    /\ pc = "diff"
    /\ sd \in { [secs |-> << >>, nl |-> b] : b \in BOOLEAN }
    /\ useJudge = FALSE
    /\ dryRun = FALSE
    /\ minScore = 5
    /\ reviewer = NoReviewer
    /\ ctx = "background"
    /\ Idle

DiffNext ==
    \/ Gen_NewFile
    \/ Gen_NewHunk
    \/ Gen_Line

DiffSpec == DiffInit /\ [][DiffNext]_vars

(***************************************************************************)
(* Properties of the diff index.                                           *)
(***************************************************************************)
\* the new-file line numbers of the added and unchanged lines of a hunk
HunkNewLines(h) == { h.start + k - 1 : k \in 1..NewCount(h.body) }

SectionNewLines(s) == UNION { HunkNewLines(s.hunks[k]) : k \in 1..Len(s.hunks) }

\* the (file, line) pairs a parser state covers, the pending range included
CoveredBy(st) ==
    UNION { UNION { { <<f, n>> : n \in st.files[f][k].start..st.files[f][k].end } :
                       k \in 1..Len(st.files[f]) } :
               f \in DOMAIN st.files }
    \cup (IF st.inRange /\ st.currentFile # << >> /\ st.rangeStart > 0
          THEN { <<st.currentFile, n>> : n \in st.rangeStart..(st.currentLine - 1) }
          ELSE {})

\* C9: for every file section of a well-formed diff, every new-file line number
\* of an added or unchanged hunk line lies in exactly one range of the file's
\* entry of the index; and a line starting with '-' changes neither the cursor
\* nor the lines covered.
C9_HunkLinesCoveredOnce ==
    /\ \A s \in Range(sd.secs) :
          \A n \in SectionNewLines(s) :
              /\ s.path \in DOMAIN diffInfo
              /\ Cardinality({ k \in 1..Len(diffInfo[s.path]) :
                                  /\ diffInfo[s.path][k].start <= n
                                  /\ n <= diffInfo[s.path][k].end }) = 1
    /\ LET lines == Split(diff)
       IN  \A p \in 1..Len(lines) :
              HasPrefix(lines[p], <<"-">>) =>
                  LET before == DiffFold(ParserInit, SubSeq(lines, 1, p - 1), 1)
                      after == DiffStep(before, lines[p])
                  IN  /\ after.currentLine = before.currentLine
                      /\ CoveredBy(after) = CoveredBy(before)

(***************************************************************************)
(* extractCodeFromSuggestion on its own.  A suggestion text is written     *)
(* line by line and the function is applied to the text written so far.    *)
(* A line is a fence (its text, trimmed, starts with three grave accents)  *)
(* or some other line.                                                     *)
(***************************************************************************)
\* the longest suggestion text, in lines
MaxTextLines == 6

\* a bare fence; an indented fence with a language tag; an indented line of
\* code; an empty line; a line with the marker inside it
TextLines ==
    { [kind |-> "fence", text |-> Fence],
      [kind |-> "fence", text |-> <<" ", " ">> \o Fence \o <<"g", "o">>],
      [kind |-> "text", text |-> <<" ", "x">>],
      [kind |-> "text", text |-> << >>],
      [kind |-> "text", text |-> <<"a">> \o Fence] }

TextOf(lines) == Join([k \in 1..Len(lines) |-> lines[k].text])

Extract_Write ==
    /\ pc = "extract"
    /\ Len(arg) < MaxTextLines
    /\ \E l \in TextLines :
          /\ arg' = Append(arg, l)
          /\ ret' = extractCodeFromSuggestion(TextOf(Append(arg, l)))
    /\ UNCHANGED <<pc, useJudge, dryRun, minScore, reviewer, ctx, calls, commitSHA,
                   diff, result, raw, request, judging, judged, outcomes, diffInfo, draft,
                   posted, err, sd>>

ExtractInit ==
    /\ pc = "extract"
    /\ useJudge = FALSE
    /\ dryRun = FALSE
    /\ minScore = 5
    /\ reviewer = NoReviewer
    /\ ctx = "background"
    /\ sd = NoDiffStructure
    /\ Idle

ExtractNext == Extract_Write

ExtractSpec == ExtractInit /\ [][ExtractNext]_vars

(***************************************************************************)
(* Properties of extractCodeFromSuggestion.  The fences of a text pair up  *)
(* in order: the first with the second, the third with the fourth; a pair  *)
(* is a completed block and the lines between its fences are its interior. *)
(***************************************************************************)
FencePos(lines) == { i \in 1..Len(lines) : lines[i].kind = "fence" }

NthFence(lines, n) ==
    CHOOSE i \in FencePos(lines) :
        Cardinality({ j \in FencePos(lines) : j <= i }) = n

CompletedBlocks(lines) == Cardinality(FencePos(lines)) \div 2

Interior(lines, k) ==
    LET open == NthFence(lines, 2 * k - 1)
        close == NthFence(lines, 2 * k)
    IN  [j \in 1..(close - open - 1) |-> lines[open + j].text]

\* the last fence opens a block that is never closed
HasUnterminatedFence(lines) == Cardinality(FencePos(lines)) % 2 = 1

NonEmptyBlocks(lines) ==
    { k \in 1..CompletedBlocks(lines) : Interior(lines, k) # << >> }

LastOf(S) == CHOOSE k \in S : \A j \in S : j <= k

\* no three grave accents in a row
FenceFree(s) ==
    \A i \in 1..(Len(s) - 2) :
        ~(s[i] = Backtick /\ s[i + 1] = Backtick /\ s[i + 2] = Backtick)

C16_UnterminatedReturnsOriginal ==
    (pc = "extract" /\ HasUnterminatedFence(arg)) => ret = TextOf(arg)

\* C16 as amended: a text with an unterminated fence is returned unchanged
\* when no completed block before that fence has an interior line; when one
\* has, the result is the interior of the last such block; in both cases the
\* lines after the unterminated fence are not the result.
C16_UnterminatedKeepsEarlierBlock ==
    (pc = "extract" /\ HasUnterminatedFence(arg)) =>
        IF NonEmptyBlocks(arg) = {} THEN ret = TextOf(arg)
        ELSE ret = Join(Interior(arg, LastOf(NonEmptyBlocks(arg))))

C16_Witness ==
    /\ pc = "extract"
    /\ HasUnterminatedFence(arg)
    /\ CompletedBlocks(arg) = 0
    /\ Len(arg) >= NthFence(arg, 1) + 2
    /\ ret = TextOf(arg)

C18_FenceFreeIdentity ==
    (pc = "extract" /\ FenceFree(TextOf(arg))) =>
        /\ ret = TextOf(arg)
        /\ extractCodeFromSuggestion(ret) = ret

C18_Witness ==
    /\ pc = "extract"
    /\ FenceFree(TextOf(arg))
    /\ Len(arg) = 3
    /\ arg[1].text = << >>
    /\ arg[3].text = <<" ", "x">>
    /\ ret = TextOf(arg)

(***************************************************************************)
(* contains and buildReviewComment on their own.  The index is built by    *)
(* newDiffLines from the diff of one file whose hunks start at any line,   *)
(* so its ranges may repeat and overlap; then one (file, line) pair is     *)
(* looked up, or one finding is placed.                                    *)
(***************************************************************************)
\* the highest line a range reaches, and the most ranges of the file
MaxLine == 3
MaxRanges == 2

LineRanges ==
    { [start |-> p[1], end |-> p[2]] :
         p \in { q \in (1..MaxLine) \X (1..MaxLine) : q[1] <= q[2] } }

RangeLists == UNION { [1..n -> LineRanges] : n \in 0..MaxRanges }

\* the hunk of added lines that gives the range r
HunkOfRange(r) ==
    << <<"@", "@", " ", "-", "0", ",", "0", " ", "+">> \o Dec(r.start) \o <<" ", "@", "@">> >>
    \o [k \in 1..(r.end - r.start + 1) |-> <<"+", "n">>]

RECURSIVE HunksOfRanges(_)
HunksOfRanges(rs) ==
    IF rs = << >> THEN << >> ELSE HunkOfRange(rs[1]) \o HunksOfRanges(Tail(rs))

DiffOfRanges(rs) ==
    IF rs = << >> THEN << >> ELSE Join(<<PfxNewFile \o PathA>> \o HunksOfRanges(rs))

\* the line numbers looked up, and the findings placed
ProbeLines == 0..(MaxLine + 1)

ProbeFindings ==
    { [File |-> f, LineStart |-> a, LineEnd |-> b, Severity |-> "info"] :
         f \in {PathA, PathB}, a \in ProbeLines, b \in ProbeLines }

Index_Contains ==
    /\ pc = "index"
    /\ \E f \in {PathA, PathB}, l \in ProbeLines :
          /\ arg' = [File |-> f, Line |-> l]
          /\ ret' = contains(diffInfo, f, l)
    /\ pc' = "contains"
    /\ UNCHANGED <<useJudge, dryRun, minScore, reviewer, ctx, calls, commitSHA, diff,
                   result, raw, request, judging, judged, outcomes, diffInfo, draft, posted,
                   err, sd>>

Index_Place ==
    /\ pc = "index"
    /\ \E s \in ProbeFindings :
          /\ arg' = s
          /\ ret' = PlaceSuggestions(<<s>>, diffInfo)
    /\ pc' = "placed"
    /\ UNCHANGED <<useJudge, dryRun, minScore, reviewer, ctx, calls, commitSHA, diff,
                   result, raw, request, judging, judged, outcomes, diffInfo, draft, posted,
                   err, sd>>

IndexInit ==
    /\ pc = "index"
    /\ useJudge = FALSE
    /\ dryRun = FALSE
    /\ minScore = 5
    /\ reviewer = NoReviewer
    /\ ctx = "background"
    /\ sd = NoDiffStructure
    /\ calls = << >>
    /\ commitSHA = ""
    /\ \E rs \in RangeLists :
          /\ diff = DiffOfRanges(rs)
          /\ diffInfo = newDiffLines(DiffOfRanges(rs))
    /\ result = NoResult
    /\ raw = << >>
    /\ request = NoRequest
    /\ judging = NoJudging
    /\ judged = << >>
    /\ outcomes = << >>
    /\ draft = NoDraft
    /\ posted = << >>
    /\ err = ""
    /\ arg = << >>
    /\ ret = << >>

IndexNext ==
    \/ Index_Contains
    \/ Index_Place

IndexSpec == IndexInit /\ [][IndexNext]_vars

\* the lines of a file that lie in some range of the index
IndexedLines(files, file) ==
    IF file \in DOMAIN files
    THEN UNION { files[file][k].start..files[file][k].end : k \in 1..Len(files[file]) }
    ELSE {}

\* C19: a finding whose lineEnd the index contains gets one inline comment,
\* on its file, at lineEnd, side RIGHT; the comment has startLine = lineStart
\* and startSide = RIGHT exactly when lineStart differs from lineEnd, is
\* positive and is contained in the index for the file; otherwise it has no
\* start anchor and the finding is still placed inline.
C19_InlineAnchors ==
    (pc = "placed" /\ arg.LineEnd \in IndexedLines(diffInfo, arg.File)) =>
        /\ ret.unresolved = << >>
        /\ Len(ret.comments) = 1
        /\ LET c == ret.comments[1]
               ranged == /\ arg.LineStart # arg.LineEnd
                         /\ arg.LineStart > 0
                         /\ arg.LineStart \in IndexedLines(diffInfo, arg.File)
           IN  /\ c.Path = arg.File
               /\ c.Line = arg.LineEnd
               /\ c.Side = "RIGHT"
               /\ ranged => (c.StartLine = arg.LineStart /\ c.StartSide = "RIGHT")
               /\ ~ranged => (c.StartLine = 0 /\ c.StartSide = "")

C19_Witness ==
    /\ pc = "placed"
    /\ arg.LineEnd \in IndexedLines(diffInfo, arg.File)
    /\ arg.LineStart > 0
    /\ arg.LineStart < arg.LineEnd
    /\ arg.LineStart \notin IndexedLines(diffInfo, arg.File)
    /\ Len(ret.comments) = 1
    /\ ret.comments[1].StartLine = 0

\* C20: contains(file, line) is true exactly when the line lies in some stored
\* range of the file, both ends included, so it is false for every line of a
\* file without entry; ranges that repeat or overlap give the result of the
\* lines they cover together.
C20_ContainsIffInSomeRange ==
    pc = "contains" =>
        /\ ret = (arg.Line \in IndexedLines(diffInfo, arg.File))
        /\ ret = (/\ arg.File \in DOMAIN diffInfo
                  /\ \E r \in Range(diffInfo[arg.File]) :
                        r.start <= arg.Line /\ arg.Line <= r.end)
        /\ arg.File \notin DOMAIN diffInfo => ret = FALSE

C20_Witness ==
    /\ pc = "contains"
    /\ ret = TRUE
    /\ Len(diffInfo[arg.File]) = 2
    /\ diffInfo[arg.File][1].start < diffInfo[arg.File][2].start
    /\ diffInfo[arg.File][1].end = arg.Line
    /\ diffInfo[arg.File][2].end = arg.Line
    /\ diffInfo[arg.File][2].start < arg.Line

(***************************************************************************)
(* parseHunkStart on its own: a header is written character by character   *)
(* after the "@@" that makes a line a hunk header, and the function is     *)
(* applied to what has been written.                                       *)
(***************************************************************************)
MaxHeaderChars == 5

HeaderChars == {" ", "+", "-", ",", "@", "0", "1", "2"}

Header_Write ==
    /\ pc = "header"
    /\ Len(arg) < MaxHeaderChars
    /\ \E c \in HeaderChars :
          /\ arg' = Append(arg, c)
          /\ ret' = parseHunkStart(PfxHunk \o Append(arg, c))
    /\ UNCHANGED <<pc, useJudge, dryRun, minScore, reviewer, ctx, calls, commitSHA,
                   diff, result, raw, request, judging, judged, outcomes, diffInfo,
                   draft, posted, err, sd>>

HeaderInit ==
    /\ pc = "header"
    /\ useJudge = FALSE
    /\ dryRun = FALSE
    /\ minScore = 5
    /\ reviewer = NoReviewer
    /\ ctx = "background"
    /\ sd = NoDiffStructure
    /\ Idle

HeaderNext == Header_Write

HeaderSpec == HeaderInit /\ [][HeaderNext]_vars

\* the digits of s from position i up to the first character that is no digit
LeadingDigits(s, i) ==
    LET stops == { j \in i..Len(s) : ~IsDigit(s[j]) }
        stop == IF stops = {} THEN Len(s) + 1
                ELSE CHOOSE j \in stops : \A k \in stops : j <= k
    IN  SubSeq(s, i, stop - 1)

\* the number a sequence of digits denotes, 0 for none
RECURSIVE NumberOf(_)
NumberOf(digits) ==
    IF digits = << >> THEN 0
    ELSE 10 * NumberOf(SubSeq(digits, 1, Len(digits) - 1)) + DigitVal(digits[Len(digits)])

\* C21: the start of a hunk header is the number its leading run of digits
\* right after the first "+" denotes, and 0 when no digit follows that "+"
\* directly or the header has no "+"
C21_StartIsLeadingDigits ==
    pc = "header" /\ arg # << >> =>
        LET header == PfxHunk \o arg
            plus == { i \in 1..Len(header) : header[i] = "+" }
            first == CHOOSE i \in plus : \A j \in plus : i <= j
        IN  ret = IF plus = {} THEN 0
                  ELSE NumberOf(LeadingDigits(header, first + 1))

(***************************************************************************)
(* newDiffLines on arbitrary text: a diff is written line by line from     *)
(* lines of every kind the loop distinguishes, in any order, and parsed.   *)
(* ret is the parser state after the last line, before the final           *)
(* flushRange; diffInfo is the map returned.                               *)
(***************************************************************************)
MaxDiffLines == 5

FileHeaderA == PfxNewFile \o PathA
StartHeader == <<"@", "@", " ", "-", "1", " ", "+", "2", " ", "@", "@">>
NoStartHeader == <<"@", "@", " ", "-", "1", " ", "+", " ", "@", "@">>
AddedLine == <<"+", "n">>
RemovedLine == <<"-", "o">>
EmptyLine == << >>
OtherLine == <<"i", "n", "d", "e", "x">>

DiffLineKinds ==
    { FileHeaderA, StartHeader, NoStartHeader, AddedLine, RemovedLine,
      NoNewlineMarker, EmptyLine, OtherLine }

Line_Write ==
    /\ pc = "lines"
    /\ Len(arg) < MaxDiffLines
    /\ \E l \in DiffLineKinds :
          LET text == Join(Append(arg, l))
              st == DiffFold(ParserInit, Split(text), 1)
          IN  /\ arg' = Append(arg, l)
              /\ diff' = text
              /\ ret' = st
              /\ diffInfo' = flushRange(st).files
    /\ UNCHANGED <<pc, useJudge, dryRun, minScore, reviewer, ctx, calls, commitSHA,
                   result, raw, request, judging, judged, outcomes, draft, posted,
                   err, sd>>

LineInit ==
    /\ pc = "lines"
    /\ useJudge = FALSE
    /\ dryRun = FALSE
    /\ minScore = 5
    /\ reviewer = NoReviewer
    /\ ctx = "background"
    /\ sd = NoDiffStructure
    /\ Idle

LineNext == Line_Write

LineSpec == LineInit /\ [][LineNext]_vars

IsHeaderLine(line) == HasPrefix(line, PfxNewFile) \/ HasPrefix(line, PfxHunk)

\* the parser state after the first p lines
StateAfter(lines, p) == DiffFold(ParserInit, SubSeq(lines, 1, p), 1)

\* the position of the last file or hunk header written, 0 if there is none
LastHeader(lines) ==
    LET at == { p \in 1..Len(lines) : IsHeaderLine(lines[p]) }
    IN  IF at = {} THEN 0 ELSE CHOOSE p \in at : \A q \in at : q <= p

\* C22: after a hunk header with no digits after its "+" the cursor is 0, and
\* up to the next header no line is tracked or added to a range, whatever the
\* cursor was before that header
C22_NoStartStopsTracking ==
    pc = "lines" /\ arg # << >> =>
        LET p == LastHeader(arg)
        IN  p > 0 /\ arg[p] = NoStartHeader =>
               /\ ret.currentLine = 0
               /\ CoveredBy(ret) = CoveredBy(StateAfter(arg, p))

\* the parser is tracking: a file is current and the cursor is positive
Tracking(st) == st.currentFile # << >> /\ st.currentLine > 0

\* a line that is no header and begins with none of "+", " ", "-" and "\"
IsOtherLine(line) ==
    /\ ~IsHeaderLine(line)
    /\ \A c \in {"+", " ", "-", "\\"} : ~HasPrefix(line, <<c>>)

\* C23: while tracking, a line that is no file or hunk header and begins with
\* none of "+", a space, "-" and a backslash takes the cursor position as a
\* context line does: the cursor advances by one and the position joins the
\* pending range, which is opened at it if none was pending; a line that begins
\* with a backslash leaves the whole parser state as it was
C23_OtherLinesAreContext ==
    pc = "lines" /\ arg # << >> =>
        LET before == StateAfter(arg, Len(arg) - 1)
            line == arg[Len(arg)]
        IN  /\ Tracking(before) /\ IsOtherLine(line) =>
                  /\ ret.currentLine = before.currentLine + 1
                  /\ ret.inRange
                  /\ ret.rangeStart = IF before.inRange THEN before.rangeStart
                                      ELSE before.currentLine
                  /\ ret.files = before.files
                  /\ ret.currentFile = before.currentFile
                  /\ CoveredBy(ret) = CoveredBy(before)
                                         \cup {<<before.currentFile, before.currentLine>>}
            /\ HasPrefix(line, <<"\\">>) => ret = before

\* an empty line and a backslash line have both been read while tracking
C23_Witness ==
    /\ pc = "lines"
    /\ Len(arg) >= 4
    /\ arg[Len(arg) - 1] = EmptyLine
    /\ arg[Len(arg)] = NoNewlineMarker
    /\ Tracking(StateAfter(arg, Len(arg) - 2))
    /\ ret.currentLine = StateAfter(arg, Len(arg) - 2).currentLine + 1
    /\ diffInfo # << >>

\* C24: for every text, every range stored in the index has end >= start >= 1,
\* and newDiffLines returns an index: a map from paths to sequences of ranges
C24_RangesClosed ==
    pc = "lines" =>
        /\ DOMAIN diffInfo \subseteq {PathA}
        /\ \A f \in DOMAIN diffInfo :
              /\ Len(diffInfo[f]) >= 1
              /\ \A k \in 1..Len(diffInfo[f]) :
                    /\ diffInfo[f][k].start >= 1
                    /\ diffInfo[f][k].end >= diffInfo[f][k].start

\* a malformed text (a hunk after a header without a start, with an empty line
\* in it) has given an index with a range longer than one line
C24_Witness ==
    /\ pc = "lines"
    /\ \E p \in 1..Len(arg) : arg[p] = NoStartHeader
    /\ \E p \in 1..Len(arg) : arg[p] = EmptyLine
    /\ \E f \in DOMAIN diffInfo :
          \E k \in 1..Len(diffInfo[f]) : diffInfo[f][k].end > diffInfo[f][k].start

(***************************************************************************)
(* Properties of the pipeline as a whole: the order of its calls, the diff *)
(* it works on, and what of the findings reaches the review.               *)
(***************************************************************************)
\* the positions of the calls of one kind
CallsAt(name) == { i \in 1..Len(calls) : calls[i] = name }

\* C25: the calls of a run come in the order of the stages: GetPR, GetPRDiff
\* and GetPRFiles, then the AI generation, then judge.NewVertex and one j.Judge
\* per finding in the order of the findings, then CreateReview, which follows
\* the j.Judge call of the last finding and is the last call of the run
C25_StagesInOrder ==
    pc \in {"flags", "GetPR", "GetPRDiff", "GetPRFiles", "Execute", "JudgeSuggestions",
            "Judge", "ApplyJudge", "PostReview", "exit"} =>
        /\ \A i \in 1..Len(calls) :
              IF i <= 4 THEN calls[i] = ReviewCalls[i]
              ELSE calls[i] \in {"NewVertex", "Judge", "CreateReview"}
        /\ \A i \in CallsAt("NewVertex") : i = 5 /\ EnabledMode
        /\ \A i \in CallsAt("Judge") :
              /\ calls[5] = "NewVertex"
              /\ i - 5 \in 1..Len(raw)
              /\ \A j \in 6..i : calls[j] = "Judge"
        /\ Cardinality(CallsAt("Judge")) = Len(outcomes)
        /\ \A k \in 1..Len(judging.from) :
              /\ judging.from[k] \in 1..Len(outcomes)
              /\ k > 1 => judging.from[k - 1] < judging.from[k]
              /\ judging.result[k].Suggestion = raw[judging.from[k]]
        /\ \A i \in CallsAt("CreateReview") :
              /\ i = Len(calls)
              /\ i = IF EnabledMode THEN 6 + Len(raw) ELSE 5
              /\ EnabledMode => Len(outcomes) = Len(raw)
              /\ draft.event = reviewEvent(result)

\* a run with judging enabled and two findings or more has made all its calls
C25_Witness ==
    /\ PostReviewRan
    /\ EnabledMode
    /\ Len(raw) >= 2
    /\ Len(calls) = 6 + Len(raw)
    /\ posted # << >>

\* C26: a run makes at most one GetPRDiff call; the text it returned is the
\* Diff of the request given to the AI executor, and PostReview builds its diff
\* index from that same text, with no further GetPRDiff call
C26_DiffFetchedOnce ==
    pc \in {"flags", "GetPR", "GetPRDiff", "GetPRFiles", "Execute", "JudgeSuggestions",
            "Judge", "ApplyJudge", "PostReview", "exit"} =>
        /\ \A i \in 1..Len(calls) : calls[i] = "GetPRDiff" => i = 2
        /\ Len(calls) < 2 => diff = << >> /\ diffInfo = << >>
        /\ Len(calls) >= 4 => request.Diff = diff /\ diff \in DiffTexts
        /\ PostReviewRan =>
              /\ calls[2] = "GetPRDiff"
              /\ diffInfo = IndexOfText[request.Diff]
              /\ draft = PullRequestReviewRequest(commitSHA, result,
                                                  IndexOfText[request.Diff])

\* a review has been created from a diff that touches two files
C26_Witness ==
    /\ PostReviewRan
    /\ posted # << >>
    /\ request.Diff = TwoFileDiff
    /\ DOMAIN diffInfo = {PathA, PathB}
    /\ draft.comments # << >>

\* C27: the index built from a diff of one or several file sections is sound:
\* contains(file, n) holds only for the new-file line numbers n of the added
\* and unchanged lines of the hunks of a section of that file, so the header
\* lines of the next section add nothing to the ranges of the file before them
C27_ContainsSound ==
    pc = "diff" =>
        \A f \in DOMAIN diffInfo :
            \A n \in IndexedLines(diffInfo, f) :
                /\ contains(diffInfo, f, n)
                /\ \E s \in Range(sd.secs) : s.path = f /\ n \in SectionNewLines(s)

\* C28: an inline comment that carries a start anchor is a well-formed range:
\* its startLine is below its line, for every finding, those with lineStart
\* above lineEnd included, and every index
C28_RangeAnchorsWellFormed ==
    pc = "placed" =>
        \A k \in 1..Len(ret.comments) :
            ret.comments[k].StartLine # 0 =>
                ret.comments[k].StartLine < ret.comments[k].Line

\* the positions of the findings the filter keeps: those whose judge call
\* failed and those whose score is at least minScore
KeptPositions ==
    { i \in 1..Len(outcomes) : outcomes[i].Err \/ outcomes[i].Score >= minScore }

\* C29: with judging enabled the review PostReview submits is made of the
\* findings the filter kept and of no other: the findings it places are the
\* kept ones, one for one and in the order of the AI result, each of them is
\* either an inline comment or a fallback entry, and both lists are in that
\* order
C29_ReviewHoldsKeptFindings ==
    (PostReviewRan /\ EnabledMode) =>
        LET sugs == result.Suggestions
            from == judging.from
            in == SelectSeq(sugs, LAMBDA s : contains(diffInfo, s.File, s.LineEnd))
            out == SelectSeq(sugs, LAMBDA s : ~contains(diffInfo, s.File, s.LineEnd))
        IN  /\ Len(outcomes) = Len(raw)
            /\ Range(from) = KeptPositions
            /\ \A k \in 2..Len(from) : from[k - 1] < from[k]
            /\ sugs = [k \in 1..Len(from) |-> raw[from[k]]]
            /\ Len(draft.comments) + Len(draft.unresolved) = Cardinality(KeptPositions)
            /\ draft.unresolved = out
            /\ Len(draft.comments) = Len(in)
            /\ \A k \in 1..Len(in) :
                  /\ draft.comments[k].Path = in[k].File
                  /\ draft.comments[k].Line = in[k].LineEnd
            /\ posted \in {<< >>, <<draft>>}

\* a review has been created after the filter dropped a finding, kept one that
\* passed and kept one whose judge call failed
C29_Witness ==
    /\ PostReviewRan
    /\ EnabledMode
    /\ posted # << >>
    /\ Len(raw) = 3
    /\ Cardinality(KeptPositions) = 2
    /\ \E i \in KeptPositions : outcomes[i].Err
    /\ \E i \in KeptPositions : ~outcomes[i].Err
    /\ draft.comments # << >>
    /\ draft.unresolved # << >>

\* C30: extractCodeFromSuggestion applied to its own result returns that
\* result, for every text; and a result that is the interior of a block has no
\* line whose trimmed content starts with the fence marker
C30_ExtractIdempotent ==
    pc = "extract" =>
        /\ extractCodeFromSuggestion(ret) = ret
        /\ ret # TextOf(arg) =>
              \A k \in 1..Len(Split(ret)) : ~HasPrefix(TrimSpace(Split(ret)[k]), Fence)

\* the interior of a block has been extracted and it has the marker inside a
\* line, so that the second application scans it
C30_Witness ==
    /\ pc = "extract"
    /\ ret # TextOf(arg)
    /\ Contains(ret, Fence)
    /\ Len(Split(ret)) >= 2

====
